---- MODULE Spec2Model ----
(***************************************************************************)
(* Model of src/utils/eval_PLM.py: the length-sorted batch encoder that    *)
(* WrappedHuggingfaceTransformer.encode and WrappedOpenCLIPTransformer     *)
(* .encode both carry, and the model dispatch of the __main__ block.       *)
(*                                                                         *)
(* Python values are records [type, n, elems]: type is the Python type,    *)
(* n the value of an int (or the code of a character), elems the items of  *)
(* a str / list / tuple, or the values of a dict in insertion order.       *)
(* Python positions are 0-based; a TLA+ sequence s holds Python's s[i] at  *)
(* s[i + 1].  The variables hold a text as its key in ItemTable, Text(k)   *)
(* being the Python value, and the embedding of text k as -k.              *)
(***************************************************************************)
EXTENDS Integers, Sequences, FiniteSets, TLC

\* Largest number of sentences given to one encode call.
MaxLen == 3
\* Largest batch_size given to one encode call (batch_size ranges over 1..MaxBatch).
MaxBatch == 3

(***************************************************************************)
(* Python values                                                           *)
(***************************************************************************)
PyInt(v) == [type |-> "int", n |-> v, elems |-> <<>>]
PyChr(c) == [type |-> "str", n |-> c, elems |-> <<>>]
PyStr(codes) == [type |-> "str", n |-> 0, elems |-> [i \in 1..Len(codes) |-> PyChr(codes[i])]]
PyList(xs) == [type |-> "list", n |-> 0, elems |-> xs]
PyTuple(xs) == [type |-> "tuple", n |-> 0, elems |-> xs]
PyDict(values) == [type |-> "dict", n |-> 0, elems |-> values]

\* hasattr(x, '__len__'): str, list, tuple and dict have it, int has not.
HasLen(x) == x.type \in {"str", "list", "tuple", "dict"}

\* len(x). A one-character str (what iterating a str yields) has no further
\* items in this encoding and has length 1.
PyLen(x) == IF x.type = "str" /\ x.elems = <<>> /\ x.n # 0 THEN 1 ELSE Len(x.elems)

\* isinstance(x, int)
IsInt(x) == x.type = "int"

RECURSIVE SumLen(_)
\* sum([len(t) for t in ts])
SumLen(ts) == IF ts = <<>> THEN 0 ELSE PyLen(Head(ts)) + SumLen(Tail(ts))

\* Iterating a str yields its characters, each a str of length 1.
Iter(x) == x.elems

\* _text_length with the last two branches merged: always len(text).
HF_text_length_len(text) ==
    IF text.type = "dict" THEN PyLen(Head(text.elems))
    ELSE IF ~HasLen(text) THEN 1
    ELSE PyLen(text)

\* _text_length of WrappedHuggingfaceTransformer.encode.
HF_text_length(text) ==
    IF text.type = "dict" THEN PyLen(Head(text.elems))
    ELSE IF ~HasLen(text) THEN 1
    ELSE IF PyLen(text) = 0 \/ IsInt(Iter(text)[1]) THEN PyLen(text)
    ELSE SumLen(Iter(text))

\* _text_length of WrappedOpenCLIPTransformer.encode.
CLIP_text_length(text) ==
    IF text.type = "dict" THEN PyLen(Head(text.elems))
    ELSE IF ~HasLen(text) THEN 1
    ELSE IF PyLen(text) = 0 \/ IsInt(Iter(text)[1]) THEN PyLen(text)
    ELSE SumLen(Iter(text))

(***************************************************************************)
(* The text items an encode call is given                                  *)
(***************************************************************************)
ItemTable ==
    << PyStr(<<97, 98, 99>>),                         \* "abc"
       PyList(<<PyStr(<<97, 98>>), PyStr(<<99>>)>>),  \* ["ab", "c"]
       PyList(<<PyInt(1), PyInt(2), PyInt(3), PyInt(4), PyInt(5)>>),  \* [1,2,3,4,5]
       PyInt(7),                                      \* 7, which has no len()
       PyStr(<<>>),                                   \* ""
       PyDict(<<PyStr(<<97, 98>>)>>),                 \* {"k": "ab"}
       PyTuple(<<PyStr(<<97>>), PyStr(<<98, 99, 100>>)>>),  \* ("a", "bcd")
       PyList(<<>>) >>                                \* []

\* The Python value of a key.
Text(k) == ItemTable[k]
\* The keys of all the texts, and of those the batching runs are given.
AllItems == 1..Len(ItemTable)
Items == {1, 2, 3, 4}

SeqsUpTo(S, n) == UNION {[1..m -> S] : m \in 0..n}

(***************************************************************************)
(* Library functions                                                       *)
(***************************************************************************)
Min(a, b) == IF a < b THEN a ELSE b

RECURSIVE RangeFrom(_, _, _)
RangeFrom(start, stop, step) ==
    IF start >= stop THEN <<>> ELSE <<start>> \o RangeFrom(start + step, stop, step)

\* range(start, stop, step) with a start that is always visited.
PyRangeAlways(start, stop, step) == <<start>> \o RangeFrom(start + step, stop, step)

\* range(start, stop, step), step >= 1.
PyRange(start, stop, step) == RangeFrom(start, stop, step)

\* s[a:b+1]
PySliceOverlap(s, a, b) == SubSeq(s, Min(a, Len(s)) + 1, Min(b + 1, Len(s)))

\* s[a:b] for 0 <= a <= b.
PySlice(s, a, b) == SubSeq(s, Min(a, Len(s)) + 1, Min(b, Len(s)))

\* The permutations of 0..n-1, as sequences.
Perms(n) == {p \in [1..n -> 0..(n - 1)] : \A i, j \in 1..n : i # j => p[i] # p[j]}

\* Any order at all.
ArgsortUnsorted(keys) == Perms(Len(keys))

\* np.argsort(keys) with the default kind ('quicksort', which NumPy documents
\* as not stable): some permutation that puts the keys in ascending order.
\* Which one among several, when keys are equal, depends on the build.
ArgsortOutcomes(keys) ==
    {p \in Perms(Len(keys)) :
        \A k, l \in 1..Len(keys) : k < l => keys[p[k] + 1] <= keys[p[l] + 1]}

\* The embedding the underlying model gives a text: one vector per text,
\* the same text always the same vector, different texts different vectors.
Embed(text) == -text

\* encode_text(texts): the tensor of one row per text (a successful call).
encode_text(texts) == [j \in 1..Len(texts) |-> Embed(texts[j])]

NoResult == [kind |-> "none", rows |-> <<>>]

\* The branch taken with numpy given priority.
ConversionNumpyFirst(to_tensor, to_numpy) ==
    IF to_numpy THEN "asarray" ELSE IF to_tensor THEN "stack" ELSE "list"

\* The branch of the output conversion: if convert_to_tensor / elif convert_to_numpy.
Conversion(to_tensor, to_numpy) ==
    IF to_tensor THEN "stack" ELSE IF to_numpy THEN "asarray" ELSE "list"

\* The value the conversion leaves in all_embeddings. torch.stack raises
\* RuntimeError on an empty list.
Converted(how, embs) ==
    CASE how = "stack" /\ embs = <<>> -> [kind |-> "RuntimeError", rows |-> <<>>]
      [] how = "stack" -> [kind |-> "Tensor", rows |-> embs]
      [] how = "asarray" -> [kind |-> "ndarray", rows |-> embs]
      [] OTHER -> [kind |-> "list", rows |-> embs]

VARIABLES
    cls,                \* the wrapper whose encode runs: "HF" or "CLIP"
    sentences, batch_size, show_progress_bar, convert_to_numpy, convert_to_tensor,
    pc,                 \* position in encode
    text_lengths,       \* [_text_length(sen) for sen in sentences]
    length_sorted_idx, sentences_sorted,
    iterator, it,       \* the range of start indexes and how many were taken
    sentences_batch, all_embeddings,
    conversion,         \* the conversion branch entered ("" before)
    result, exc,        \* what encode returned / the exception that left it
    calls,              \* the chunks handed to encode_text, in call order
    outcomes,           \* how each finished call ended: "ok" or "raise"
    model_name, mainpc, model, constructed, nlp_eval_called, results_file, main_exc

encode_vars == <<cls, sentences, batch_size, show_progress_bar, convert_to_numpy,
                 convert_to_tensor, pc, text_lengths, length_sorted_idx,
                 sentences_sorted, iterator, it, sentences_batch, all_embeddings,
                 conversion, result, exc, calls, outcomes>>
main_vars == <<model_name, mainpc, model, constructed, nlp_eval_called, results_file,
               main_exc>>
vars == <<encode_vars, main_vars>>

(***************************************************************************)
(* encode(sentences, batch_size, show_progress_bar, convert_to_numpy,      *)
(*        convert_to_tensor), one call on a wrapper of class cls           *)
(***************************************************************************)
Wrappers == {"HF", "CLIP"}

text_length(c, text) == IF c = "HF" THEN HF_text_length(text) ELSE CLIP_text_length(text)

\* What encode starts with apart from its arguments.
EncodeLocals ==
    /\ pc = "start"
    /\ text_lengths = <<>>
    /\ length_sorted_idx = <<>>
    /\ sentences_sorted = <<>>
    /\ iterator = <<>>
    /\ it = 0
    /\ sentences_batch = <<>>
    /\ all_embeddings = <<>>
    /\ conversion = ""
    /\ result = NoResult
    /\ exc = ""
    /\ calls = <<>>
    /\ outcomes = <<>>

\* show_progress_bar FALSE stands for the falsy values None (the default) and False.
EncodeInit ==
    /\ cls \in Wrappers
    /\ sentences \in SeqsUpTo(Items, MaxLen)
    /\ batch_size \in 1..MaxBatch
    /\ show_progress_bar \in BOOLEAN
    /\ convert_to_numpy \in BOOLEAN
    /\ convert_to_tensor \in BOOLEAN
    /\ EncodeLocals

\* A call with the default batch_size and flags, on texts of every shape.
EncodeInitDefaults ==
    /\ cls \in Wrappers
    /\ sentences \in SeqsUpTo(AllItems, MaxLen)
    /\ batch_size = 32
    /\ show_progress_bar = FALSE
    /\ convert_to_numpy = TRUE
    /\ convert_to_tensor = TRUE
    /\ EncodeLocals

\* all_embeddings = []; length_sorted_idx = np.argsort([...]); sentences_sorted = [...]
Sort ==
    /\ pc = "start"
    /\ LET lens == [i \in 1..Len(sentences) |-> text_length(cls, Text(sentences[i]))] IN
       /\ text_lengths' = lens
       /\ \E p \in ArgsortOutcomes(lens) :
            /\ length_sorted_idx' = p
            /\ sentences_sorted' = [k \in 1..Len(p) |-> sentences[p[k] + 1]]
    /\ all_embeddings' = <<>>
    /\ pc' = "range"
    /\ UNCHANGED <<cls, sentences, batch_size, show_progress_bar, convert_to_numpy,
                   convert_to_tensor, iterator, it, sentences_batch, conversion,
                   result, exc, calls, outcomes,
                   main_vars>>

\* The loop header: range(0, len(sentences), batch_size). The OpenCLIP wrapper
\* wraps it in tqdm.tqdm when show_progress_bar is truthy; the module never
\* imports tqdm, so evaluating that name raises NameError.
Iterate ==
    /\ pc = "range"
    /\ IF cls = "CLIP" /\ show_progress_bar
       THEN /\ pc' = "raised"
            /\ exc' = "NameError"
            /\ UNCHANGED iterator
       ELSE /\ iterator' = PyRange(0, Len(sentences), batch_size)
            /\ pc' = "loop"
            /\ UNCHANGED exc
    /\ UNCHANGED <<cls, sentences, batch_size, show_progress_bar, convert_to_numpy,
                   convert_to_tensor, text_lengths, length_sorted_idx,
                   sentences_sorted, it, sentences_batch, all_embeddings,
                   conversion, result, calls, outcomes,
                   main_vars>>

\* The next start_index: slice the batch and call encode_text on it.
BeginBatch ==
    /\ pc = "loop"
    /\ it < Len(iterator)
    /\ LET start_index == iterator[it + 1]
           batch == PySlice(sentences_sorted, start_index, start_index + batch_size)
       IN /\ sentences_batch' = batch
          /\ calls' = Append(calls, batch)
    /\ it' = it + 1
    /\ pc' = "encode_text"
    /\ UNCHANGED <<cls, sentences, batch_size, show_progress_bar, convert_to_numpy,
                   convert_to_tensor, text_lengths, length_sorted_idx,
                   sentences_sorted, iterator, all_embeddings, conversion, result,
                   exc, outcomes,
                   main_vars>>

\* encode_text raised and the loop went on to the next batch (a swallowed exception).
EncodeTextRaiseSwallowed ==
    /\ pc = "encode_text"
    /\ outcomes' = Append(outcomes, "raise")
    /\ pc' = "loop"
    /\ UNCHANGED <<cls, sentences, batch_size, show_progress_bar, convert_to_numpy,
                   convert_to_tensor, text_lengths, length_sorted_idx,
                   sentences_sorted, iterator, it, sentences_batch, all_embeddings,
                   conversion, result, exc, calls,
                   main_vars>>

\* encode_text(sentences_batch) returns: all_embeddings.extend(embeddings).
EncodeTextReturn ==
    /\ pc = "encode_text"
    /\ all_embeddings' = all_embeddings \o encode_text(sentences_batch)
    /\ outcomes' = Append(outcomes, "ok")
    /\ pc' = "loop"
    /\ UNCHANGED <<cls, sentences, batch_size, show_progress_bar, convert_to_numpy,
                   convert_to_tensor, text_lengths, length_sorted_idx,
                   sentences_sorted, iterator, it, sentences_batch, conversion,
                   result, exc, calls,
                   main_vars>>

\* encode_text(sentences_batch) raises (tokenizer failure, out of memory, ...):
\* encode has no try, so the exception leaves encode.
EncodeTextRaise ==
    /\ pc = "encode_text"
    /\ outcomes' = Append(outcomes, "raise")
    /\ pc' = "raised"
    /\ exc' = "encode_text"
    /\ UNCHANGED <<cls, sentences, batch_size, show_progress_bar, convert_to_numpy,
                   convert_to_tensor, text_lengths, length_sorted_idx,
                   sentences_sorted, iterator, it, sentences_batch, all_embeddings,
                   conversion, result, calls,
                   main_vars>>

\* The loop is over: all_embeddings = [all_embeddings[idx] for idx in
\* np.argsort(length_sorted_idx)]. An index past the end of all_embeddings
\* raises IndexError.
Unsort ==
    /\ pc = "loop"
    /\ it >= Len(iterator)
    /\ \E inv \in ArgsortOutcomes(length_sorted_idx) :
         IF \A k \in 1..Len(inv) : inv[k] < Len(all_embeddings)
         THEN /\ all_embeddings' = [k \in 1..Len(inv) |-> all_embeddings[inv[k] + 1]]
              /\ pc' = "convert"
              /\ UNCHANGED exc
         ELSE /\ pc' = "raised"
              /\ exc' = "IndexError"
              /\ UNCHANGED all_embeddings
    /\ UNCHANGED <<cls, sentences, batch_size, show_progress_bar, convert_to_numpy,
                   convert_to_tensor, text_lengths, length_sorted_idx,
                   sentences_sorted, iterator, it, sentences_batch, conversion,
                   result, calls, outcomes,
                   main_vars>>

\* if convert_to_tensor: torch.stack / elif convert_to_numpy: np.asarray; return.
Convert ==
    /\ pc = "convert"
    /\ LET how == Conversion(convert_to_tensor, convert_to_numpy)
           out == Converted(how, all_embeddings)
       IN /\ conversion' = how
          /\ IF out.kind = "RuntimeError"
             THEN /\ pc' = "raised"
                  /\ exc' = "RuntimeError"
                  /\ UNCHANGED result
             ELSE /\ pc' = "done"
                  /\ result' = out
                  /\ UNCHANGED exc
    /\ UNCHANGED <<cls, sentences, batch_size, show_progress_bar, convert_to_numpy,
                   convert_to_tensor, text_lengths, length_sorted_idx,
                   sentences_sorted, iterator, it, sentences_batch, all_embeddings,
                   calls, outcomes,
                   main_vars>>

(***************************************************************************)
(* The __main__ block                                                      *)
(***************************************************************************)
huggingface_transformers ==
    << "bert-base-uncased", "bert-base-cased", "bert-large-uncased",
       "bert-large-cased", "roberta-base", "roberta-large", "roberta-large-mnli",
       "facebook/muppet-roberta-large", "facebook/contriever",
       "facebook/contriever-msmarco", "Jean-Baptiste/roberta-large-ner-english",
       "princeton-nlp/unsup-simcse-roberta-large",
       "princeton-nlp/sup-simcse-roberta-large", "xlm-roberta-large",
       "xlm-roberta-large-finetuned-conll03-english",
       "deepset/xlm-roberta-large-squad2", "joeddav/xlm-roberta-large-xnli",
       "sentence-transformers/distiluse-base-multilingual-cased-v2",
       "sentence-transformers/paraphrase-distilroberta-base-v2",
       "sentence-transformers/paraphrase-MiniLM-L6-v2",
       "sentence-transformers/msmarco-distilbert-base-tas-b",
       "sentence-transformers/all-MiniLM-L12-v1",
       "sentence-transformers/all-mpnet-base-v2",
       "sentence-transformers/all-roberta-large-v1" >>

sentence_transformers ==
    << "average_word_embeddings_glove.6B.300d", "average_word_embeddings_komninos" >>

open_clip_transformers ==
    << "RN50", "RN101", "RN50x4", "RN50x16", "ViT-B-32", "ViT-B-16", "ViT-L-14",
       "ViT-L-14-336" >>

\* x in xs, for a Python list xs.
In(x, xs) == \E i \in 1..Len(xs) : xs[i] = x

\* Names that are in none of the lists: the commented-out 'RN50x64', a name
\* with another case, and two more.
UnlistedNames == {"RN50x64", "BERT-base-uncased", "gpt2", "ViT-B-32-quickgelu"}

\* The values --text-model is given.
ModelNames ==
    {huggingface_transformers[i] : i \in 1..Len(huggingface_transformers)}
      \cup {sentence_transformers[i] : i \in 1..Len(sentence_transformers)}
      \cup {open_clip_transformers[i] : i \in 1..Len(open_clip_transformers)}
      \cup UnlistedNames

\* The chain with its else branch missing an exception: the last class is built.
AdapterNoElse(name) ==
    IF In(name, huggingface_transformers) THEN "WrappedHuggingfaceTransformer"
    ELSE IF In(name, sentence_transformers) THEN "SentenceTransformer"
    ELSE "WrappedOpenCLIPTransformer"

\* The if / elif chain: the class constructed for a name, "raise" for the else.
Adapter(name) ==
    IF In(name, huggingface_transformers) THEN "WrappedHuggingfaceTransformer"
    ELSE IF In(name, sentence_transformers) THEN "SentenceTransformer"
    ELSE IF In(name, open_clip_transformers) THEN "WrappedOpenCLIPTransformer"
    ELSE "raise"

NoModel == "None"
NoFile == ""

MainInit ==
    /\ model_name \in ModelNames
    /\ mainpc = "dispatch"
    /\ model = NoModel
    /\ constructed = <<>>
    /\ nlp_eval_called = FALSE
    /\ results_file = NoFile
    /\ main_exc = ""

\* The class chosen for model_name is constructed and moved to the GPU;
\* the else branch runs raise 'wtf?', which Python answers with TypeError
\* (exceptions must derive from BaseException).
Dispatch ==
    /\ mainpc = "dispatch"
    /\ LET a == Adapter(model_name) IN
       IF a = "raise"
       THEN /\ mainpc' = "raised"
            /\ main_exc' = "TypeError"
            /\ UNCHANGED <<model, constructed>>
       ELSE /\ constructed' = Append(constructed, a)
            /\ \/ /\ model' = a
                  /\ mainpc' = "eval"
                  /\ UNCHANGED main_exc
               \/ /\ mainpc' = "raised"      \* the constructor or .cuda() failed
                  /\ main_exc' = "construct"
                  /\ UNCHANGED model
    /\ UNCHANGED <<model_name, nlp_eval_called, results_file,
                   encode_vars>>

\* results = nlp_eval(model, epoch=0, args=args); results['model'] = model_name
NlpEval ==
    /\ mainpc = "eval"
    /\ nlp_eval_called' = TRUE
    /\ \/ /\ mainpc' = "write"
          /\ UNCHANGED main_exc
       \/ /\ mainpc' = "raised"              \* the evaluation failed
          /\ main_exc' = "nlp_eval"
    /\ UNCHANGED <<model_name, model, constructed, results_file,
                   encode_vars>>

\* results.to_csv('PLM_evaluations/sts-<model_name>.csv'): results_file is the
\* model whose results file was written.
WriteResults ==
    /\ mainpc = "write"
    /\ \/ /\ results_file' = model_name
          /\ mainpc' = "exit"
          /\ UNCHANGED main_exc
       \/ /\ mainpc' = "raised"              \* the directory is missing, ...
          /\ main_exc' = "to_csv"
          /\ UNCHANGED results_file
    /\ UNCHANGED <<model_name, model, constructed, nlp_eval_called,
                   encode_vars>>

\* encode is not running.
EncodeIdle ==
    /\ cls = "HF"
    /\ sentences = <<>>
    /\ batch_size = 32
    /\ show_progress_bar = FALSE
    /\ convert_to_numpy = TRUE
    /\ convert_to_tensor = TRUE
    /\ pc = "idle"
    /\ text_lengths = <<>>
    /\ length_sorted_idx = <<>>
    /\ sentences_sorted = <<>>
    /\ iterator = <<>>
    /\ it = 0
    /\ sentences_batch = <<>>
    /\ all_embeddings = <<>>
    /\ conversion = ""
    /\ result = NoResult
    /\ exc = ""
    /\ calls = <<>>
    /\ outcomes = <<>>

\* The script is not running.
MainIdle ==
    /\ model_name = ""
    /\ mainpc = "idle"
    /\ model = NoModel
    /\ constructed = <<>>
    /\ nlp_eval_called = FALSE
    /\ results_file = NoFile
    /\ main_exc = ""

\* One encode call on a wrapper object.
Init == EncodeInit /\ MainIdle
Next ==
    \/ Sort
    \/ Iterate
    \/ BeginBatch
    \/ EncodeTextReturn
    \/ EncodeTextRaise
    \/ Unsort
    \/ Convert
Spec == Init /\ [][Next]_vars

\* The length estimate and the sort of one encode call, on texts of every shape.
InitLength == EncodeInitDefaults /\ MainIdle
NextLength == Sort
SpecLength == InitLength /\ [][NextLength]_vars

\* One run of the script.
InitMain == MainInit /\ EncodeIdle
NextMain == Dispatch \/ NlpEval \/ WriteResults
SpecMain == InitMain /\ [][NextMain]_vars

(***************************************************************************)
(* Properties                                                              *)
(***************************************************************************)
PastSort == pc \notin {"idle", "start"}
Terminal == pc \in {"done", "raised"}
\* The for loop ran to its end (whatever happened after it).
LoopFinished ==
    \/ pc \in {"convert", "done"}
    \/ pc = "raised" /\ exc \in {"IndexError", "RuntimeError"}
AllCallsSucceeded == \A k \in 1..Len(outcomes) : outcomes[k] = "ok"
\* The embedding encode_text produces for one text.
EmbeddingOf(text) == encode_text(<<text>>)[1]
InputOrderEmbeddings == [i \in 1..Len(sentences) |-> EmbeddingOf(sentences[i])]

RECURSIVE Flatten(_)
Flatten(chunks) == IF chunks = <<>> THEN <<>> ELSE Head(chunks) \o Flatten(Tail(chunks))

\* C1: for every input and batch_size >= 1, when every encode_text call
\* succeeds, encode returns one embedding per input, the one at position i
\* being the embedding of sentences[i], whatever the sort permutation.
\* Stated for the calls that leave show_progress_bar at its default.
C1_OutputOrderIsInputOrder ==
    (Terminal /\ AllCallsSucceeded /\ ~show_progress_bar) =>
        /\ pc = "done"
        /\ result.rows = InputOrderEmbeddings

\* On the calls that return, the rows are the inputs' embeddings in input
\* order, whatever the sort permutation.
ReturnedOrderIsInputOrder == pc = "done" => result.rows = InputOrderEmbeddings

\* C2: encode of an empty input with the default arguments completes,
\* returns an empty output and never calls encode_text.
C2_EmptyInputGivesEmptyOutput ==
    (/\ sentences = <<>>
     /\ ~show_progress_bar /\ convert_to_numpy /\ convert_to_tensor
     /\ Terminal) =>
        /\ pc = "done"
        /\ result.rows = <<>>
        /\ calls = <<>>

\* C3 as stated: with batch_size >= len(sentences) the loop makes exactly one
\* encode_text call, for every input length, the empty one included.
C3_ExactlyOneChunk ==
    (batch_size >= Len(sentences) /\ LoopFinished) => Len(calls) = 1

\* C3 amended: with batch_size >= len(sentences) encode_text is called at
\* most once; a loop that ran to its end called it exactly once for a
\* non-empty input and not at all for the empty one; a call that raised
\* NameError before the loop called it not at all.
C3_OneChunkUnlessEmpty ==
    batch_size >= Len(sentences) =>
        /\ Len(calls) <= 1
        /\ LoopFinished => Len(calls) = (IF sentences = <<>> THEN 0 ELSE 1)
        /\ exc = "NameError" => calls = <<>>

C3_Witness ==
    /\ batch_size >= Len(sentences)
    /\ Len(sentences) >= 2
    /\ pc = "done"
    /\ calls = <<sentences_sorted>>

\* The estimated length as the specification words it.
RefLength(x) ==
    CASE x.type = "dict" -> PyLen(x.elems[1])
      [] x.type = "int" -> 1
      [] x.elems = <<>> -> 0
      [] x.elems[1].type = "int" -> Len(x.elems)
      [] OTHER -> SumLen(x.elems)

\* The estimated lengths of ItemTable's items, worked out by hand.
ExpectedLength == <<3, 3, 5, 1, 0, 2, 4, 0>>

\* C5: the lengths encode computes are the reference lengths: "abc" gives 3,
\* [1,2,3,4,5] gives 5, an item without a length gives 1; and both copies of
\* _text_length give the value encode computed.
C5_TextLengthIsReference ==
    PastSort =>
        /\ Len(text_lengths) = Len(sentences)
        /\ \A i \in 1..Len(sentences) :
            /\ text_lengths[i] = RefLength(Text(sentences[i]))
            /\ text_lengths[i] = HF_text_length(Text(sentences[i]))
            /\ text_lengths[i] = CLIP_text_length(Text(sentences[i]))
            /\ text_lengths[i] = ExpectedLength[sentences[i]]

C5_Witness ==
    /\ PastSort
    /\ \E i, j, k \in 1..Len(sentences) :
        /\ Text(sentences[i]) = PyStr(<<97, 98, 99>>) /\ text_lengths[i] = 3
        /\ Text(sentences[j]).type = "list" /\ Len(Text(sentences[j]).elems) = 5
        /\ IsInt(Text(sentences[j]).elems[1]) /\ text_lengths[j] = 5
        /\ Text(sentences[k]).type = "int" /\ text_lengths[k] = 1

\* C6 as stated: the sort is stable, items of equal estimated length keep
\* their input order.
C6_SortIsStable ==
    PastSort =>
        \A k, l \in 1..Len(length_sorted_idx) :
            (k < l /\ text_lengths[length_sorted_idx[k] + 1]
                        = text_lengths[length_sorted_idx[l] + 1])
                => length_sorted_idx[k] < length_sorted_idx[l]

\* C6 amended: length_sorted_idx is a permutation of the input positions
\* that puts the estimated lengths in ascending order, and sentences_sorted
\* is the input in that order.
C6_SortIsAscendingPermutation ==
    PastSort =>
        LET n == Len(sentences) IN
        /\ Len(length_sorted_idx) = n
        /\ \A i \in 0..(n - 1) : \E k \in 1..n : length_sorted_idx[k] = i
        /\ \A k, l \in 1..n :
            k < l => text_lengths[length_sorted_idx[k] + 1]
                        <= text_lengths[length_sorted_idx[l] + 1]
        /\ sentences_sorted = [k \in 1..n |-> sentences[length_sorted_idx[k] + 1]]

C6_Witness ==
    /\ PastSort
    /\ Len(sentences) = 3
    /\ length_sorted_idx[1] = 2
    /\ \E i, j \in 1..3 : i # j /\ text_lengths[i] = text_lengths[j]

\* C7: the chunks handed to encode_text are the consecutive slices of
\* sentences_sorted of batch_size items (the last one possibly shorter, none
\* empty), one call at a time; when the loop has run to its end there were
\* ceil(n / batch_size) calls and the chunks together are sentences_sorted.
C7_ContiguousChunks ==
    LET n == Len(sentences) IN
    /\ \A k \in 1..Len(calls) :
        /\ calls[k] = SubSeq(sentences_sorted, (k - 1) * batch_size + 1,
                             IF k * batch_size < n THEN k * batch_size ELSE n)
        /\ Len(calls[k]) >= 1 /\ Len(calls[k]) <= batch_size
        /\ k < Len(calls) => Len(calls[k]) = batch_size
    /\ Len(calls) - Len(outcomes) = (IF pc = "encode_text" THEN 1 ELSE 0)
    /\ LoopFinished =>
        /\ Len(calls) = (n + batch_size - 1) \div batch_size
        /\ Flatten(calls) = sentences_sorted

C7_Witness ==
    /\ pc = "done"
    /\ Len(sentences) = 3 /\ batch_size = 2
    /\ Len(calls) = 2 /\ Len(calls[2]) = 1

\* C8: once an encode_text call has raised, encode has raised with it: the
\* failing call is the last one made, every chunk was passed once, nothing
\* is returned and nothing more happens.
C8_FailurePropagates ==
    (\E k \in 1..Len(outcomes) : outcomes[k] = "raise") =>
        /\ pc = "raised" /\ exc = "encode_text"
        /\ result = NoResult
        /\ Len(calls) = Len(outcomes) /\ it = Len(calls)
        /\ \A k \in 1..Len(outcomes) : outcomes[k] = "raise" <=> k = Len(outcomes)
        /\ ~ENABLED Next

C8_Witness ==
    /\ pc = "raised" /\ exc = "encode_text"
    /\ Len(iterator) = 3 /\ Len(calls) = 2
    /\ all_embeddings # <<>> /\ result = NoResult

\* C9: for the same arguments (show_progress_bar true or false) and the
\* same encoder, both wrappers complete, hand encode_text the same chunks
\* and return the embeddings in the same order. Here for non-empty inputs:
\* every call whose encode_text calls succeeded has returned, and what it
\* did is a function of the arguments and the sort order alone.
C9_WrappersAgree ==
    (sentences # <<>> /\ Terminal /\ AllCallsSucceeded) =>
        /\ pc = "done"
        /\ Flatten(calls) = sentences_sorted
        /\ Len(calls) = (Len(sentences) + batch_size - 1) \div batch_size
        /\ result.rows = InputOrderEmbeddings

\* C10: convert_to_tensor has priority over convert_to_numpy: the branch
\* entered is torch.stack when convert_to_tensor, np.asarray only when
\* convert_to_numpy and not convert_to_tensor, none when neither; the value
\* returned is of that kind, and in each case it holds the same rows.
C10_TensorHasPriority ==
    /\ conversion # "" =>
        /\ convert_to_tensor => conversion = "stack"
        /\ (~convert_to_tensor /\ convert_to_numpy) => conversion = "asarray"
        /\ (~convert_to_tensor /\ ~convert_to_numpy) => conversion = "list"
    /\ pc = "done" =>
        /\ convert_to_tensor => result.kind = "Tensor"
        /\ (~convert_to_tensor /\ convert_to_numpy) => result.kind = "ndarray"
        /\ (~convert_to_tensor /\ ~convert_to_numpy) => result.kind = "list"
        /\ result.rows = InputOrderEmbeddings

C10_Witness ==
    /\ pc = "done"
    /\ convert_to_tensor /\ convert_to_numpy
    /\ result.kind = "Tensor" /\ Len(result.rows) = 3

ListsDisjoint ==
    /\ \A i \in 1..Len(huggingface_transformers) :
        /\ ~In(huggingface_transformers[i], sentence_transformers)
        /\ ~In(huggingface_transformers[i], open_clip_transformers)
    /\ \A i \in 1..Len(sentence_transformers) :
        ~In(sentence_transformers[i], open_clip_transformers)

\* C4: the three lists are pairwise disjoint; once dispatch has run, a name
\* of a list had the adapter of that list constructed and no other, and a
\* name of no list made the script raise: nlp_eval is not called and no
\* results file is written.
C4_Dispatch ==
    /\ ListsDisjoint
    /\ mainpc # "dispatch" =>
        /\ In(model_name, huggingface_transformers)
             => constructed = <<"WrappedHuggingfaceTransformer">>
        /\ In(model_name, sentence_transformers)
             => constructed = <<"SentenceTransformer">>
        /\ In(model_name, open_clip_transformers)
             => constructed = <<"WrappedOpenCLIPTransformer">>
        /\ model # NoModel => constructed = <<model>>
        /\ (/\ ~In(model_name, huggingface_transformers)
            /\ ~In(model_name, sentence_transformers)
            /\ ~In(model_name, open_clip_transformers))
             => /\ mainpc = "raised" /\ main_exc = "TypeError"
                /\ constructed = <<>> /\ model = NoModel
    /\ (nlp_eval_called \/ results_file # NoFile) =>
        /\ model # NoModel
        /\ \/ In(model_name, huggingface_transformers)
           \/ In(model_name, sentence_transformers)
           \/ In(model_name, open_clip_transformers)

C4_Witness ==
    /\ model_name = "RN50x64"
    /\ mainpc = "raised" /\ main_exc = "TypeError"
    /\ ~nlp_eval_called /\ results_file = NoFile

====
